---------------------------- MODULE Spec2Model ----------------------------
(***************************************************************************)
(* Model of the portfolio simulator of Lab4_src/trading_env.py:            *)
(* TradingEnvironment.run_backtest as a state machine over the dates of    *)
(* the price index and, inside one date, over the configured tickers.      *)
(*                                                                         *)
(* Money is exact fixed point: every amount (cash, prices, portfolio       *)
(* value) is an integer number of 1/Scale dollars, the cost settings are   *)
(* integer multiples of 1/Scale and the target weights integer multiples   *)
(* of 1/WeightScale.  The floats of the program are therefore modelled by  *)
(* exact rationals; rounding error of the float arithmetic is outside the  *)
(* model.                                                                  *)
(***************************************************************************)
EXTENDS Integers, Sequences, FiniteSets, TLC

(***************************************************************************)
(* Bounds of the model.                                                    *)
(***************************************************************************)
MaxDates == 5          \* longest price index (number of dates)
MaxCells == 6          \* dates x tickers of one run is at most this
MaxSeries == 4         \* longest value series handed to the metrics
UncheckedMaxDates == 3 \* the same two bounds for runs on unvalidated
UncheckedMaxCells == 4 \* settings and data
TwiceMaxDates == 3     \* the same two bounds for repeated calls
TwiceMaxCells == 4
MaxCalls == 2          \* calls of run_backtest on one environment
MaxObs == 4            \* longest series handed to a strategy function
MaxWindow == 3         \* longest rolling window
SmaMaxObs == 5         \* longest frame (dates) handed to sma_crossover

Scale == 100           \* one dollar; cost settings are in 1/Scale
WeightScale == 5       \* target weights are in 1/WeightScale
One == 60              \* the weight 1.0 of weights_table, in its unit

AllTickers == {"X", "Y"}
TickerLists == {<<"X">>, <<"X", "Y">>, <<"Y", "X">>}
SignalVals == {"buy", "sell", "hold"}
WeightVals == {0, 2, 5}      \* 0.0, 0.4 and 1.0
CostVals == {0, 1}
InitialCashVals == {100000 * Scale, 250 * Scale}
Frames == {"flat", "wave"}
ValueVals == {1, 2, 3}       \* total_value of a ledger row, in any unit
CloseVals == {1, 2, 3}       \* close prices of the strategy functions
Missing == -1                \* a price that to_numeric coerces to NaN
SmaCloseVals == {1, 2}       \* close prices of the frames of sma_crossover
TableTickerSets == {{"X"}, {"X", "Y"}, {"X", "Y", "Z"}}
CashBufferVals == {0, 12, 60}      \* 0.0, 0.2 (the default) and 1.0

VARIABLES
    initial_cash,           \* self.initial_cash
    mode,                   \* self.mode
    transaction_cost_bps,   \* self.transaction_cost_bps, in 1/Scale
    slippage_bps,           \* self.slippage_bps, in 1/Scale
    tickers,                \* self.tickers, a list
    prices_open,            \* argument: date -> ticker -> price
    prices_close,           \* argument: date -> ticker -> price
    signals_or_weights,     \* argument: date (a subset) -> ticker -> decision
    cash,                   \* local of run_backtest
    shares,                 \* local: ticker -> share count
    rows,                   \* local: the ledger rows appended so far
    i,                      \* the loop index of line 38
    k,                      \* position in self.tickers inside one date
    port_val,               \* local port_val (lines 50 and 78)
    pc,                     \* "loop" | "trade" | "done" | "raised"
    before,                 \* history: cash and shares as the latest
                            \* iteration of the ticker loop found them
    ledgers,                \* caller: what each finished call returned
    value,                  \* argument of the Evaluation functions
    metrics,                \* caller: the metrics computed so far
    ma_close,               \* ma_crossover_signals: argument close
    fast,                   \* ma_crossover_signals: argument fast
    slow,                   \* ma_crossover_signals: argument slow
    ma_sig,                 \* ma_crossover_signals: the returned series
    df,                     \* sma_crossover: argument, ticker -> closes
    short_window,           \* sma_crossover: argument
    long_window,            \* sma_crossover: argument
    df_with_pos,            \* argument of actions_table and weights_table
    wide,                   \* actions_table: the returned table
    cash_buffer,            \* weights_table: argument, in 1/One
    rebalance,              \* weights_table: argument
    weights,                \* weights_table: the returned table
    stage                   \* how far the strategy functions have run

vars == <<initial_cash, mode, transaction_cost_bps, slippage_bps, tickers,
          prices_open, prices_close, signals_or_weights,
          cash, shares, rows, i, k, port_val, pc, before,
          ledgers, value, metrics,
          ma_close, fast, slow, ma_sig, df, short_window, long_window,
          df_with_pos, wide, cash_buffer, rebalance, weights, stage>>

config == <<initial_cash, mode, transaction_cost_bps, slippage_bps, tickers>>
locals == <<cash, shares, rows, i, k, port_val, pc, before>>
inputs == <<prices_open, prices_close, signals_or_weights>>
evaluation == <<value, metrics>>
strategy == <<ma_close, fast, slow, ma_sig, df, short_window, long_window,
              df_with_pos, wide, cash_buffer, rebalance, weights, stage>>

(***************************************************************************)
(* Helpers.                                                                *)
(***************************************************************************)
Range(s) == {s[j] : j \in 1..Len(s)}

NumDates == Cardinality(DOMAIN prices_open)     \* len(prices_open)

\* The price frames the runs are drawn from: open and close of ticker tk
\* on the d-th date of the index (d = 0, 1, ...), in 1/Scale dollars.  The
\* "zero" frame has a zero open from the third date on (bad data).
FrameOpen(f, d, tk) ==
    IF f = "flat" THEN 100 * Scale
    ELSE IF f = "zero" THEN (IF d >= 2 THEN 0 ELSE 100 * Scale)
    ELSE IF tk = "X" THEN (3 + 2 * (d % 3)) * Scale
    ELSE (7 - 2 * (d % 3)) * Scale

FrameClose(f, d, tk) ==
    IF f \in {"flat", "zero"} THEN 100 * Scale
    ELSE IF tk = "X" THEN (4 + 3 * (d % 2)) * Scale
    ELSE (6 - (d % 2)) * Scale

(***************************************************************************)
(* TradingEnvironment._apply_cost                                          *)
(***************************************************************************)
apply_cost(price, side) ==
    IF transaction_cost_bps # 0 \/ slippage_bps # 0
    THEN LET bps_cost == transaction_cost_bps + slippage_bps
         IN  IF side = "buy"
             THEN (price * (Scale + bps_cost)) \div Scale
             ELSE (price * (Scale - bps_cost)) \div Scale
    ELSE price

(***************************************************************************)
(* cash + sum(shares[tk] * prices_close.at[t, tk] for tk in self.tickers)  *)
(***************************************************************************)
RECURSIVE holdings_value(_, _, _)
holdings_value(sh, t, n) ==
    IF n = 0 THEN 0
    ELSE holdings_value(sh, t, n - 1)
         + sh[tickers[n]] * prices_close[t][tickers[n]]

portfolio_value(c, sh, t) == c + holdings_value(sh, t, Len(tickers))

(***************************************************************************)
(* State after TradingEnvironment(...) is constructed and run_backtest has *)
(* executed lines 34-36 on its three arguments.                            *)
(***************************************************************************)
InitWith(cashVals, modeVals, costVals, tickerLists, frames, maxDates, maxCells) ==
    /\ initial_cash \in cashVals
    /\ mode \in modeVals
    /\ transaction_cost_bps \in costVals
    /\ slippage_bps \in costVals
    /\ tickers \in tickerLists
    /\ \E f \in frames, n \in 0..maxDates :
         /\ n * Len(tickers) <= maxCells
         /\ prices_open = [d \in 0..(n - 1) |->
                              [tk \in Range(tickers) |-> FrameOpen(f, d, tk)]]
         /\ prices_close = [d \in 0..(n - 1) |->
                              [tk \in Range(tickers) |-> FrameClose(f, d, tk)]]
         /\ \E idx \in SUBSET (0..(n - 1)) :
              signals_or_weights \in
                 [idx -> [Range(tickers) ->
                            IF mode = "weights" THEN WeightVals ELSE SignalVals]]
    /\ cash = initial_cash
    /\ shares = [tk \in Range(tickers) |-> 0]
    /\ rows = <<>>
    /\ i = 0
    /\ k = 0
    /\ port_val = 0
    /\ pc = "loop"
    /\ before = [cash |-> initial_cash,
                 shares |-> [tk \in Range(tickers) |-> 0]]
    /\ ledgers = <<>>

\* No strategy function is under call.
NoStrategyCall ==
    /\ ma_close = <<>>
    /\ fast = 1
    /\ slow = 1
    /\ ma_sig = <<>>
    /\ df = <<>>
    /\ short_window = 1
    /\ long_window = 1
    /\ df_with_pos = <<>>
    /\ wide = <<>>
    /\ cash_buffer = 0
    /\ rebalance = "daily"
    /\ weights = <<>>
    /\ stage = "idle"

Init ==
    /\ NoStrategyCall
    /\ InitWith(InitialCashVals, {"signals", "weights"}, CostVals, TickerLists,
                Frames, MaxDates, MaxCells)
    /\ value = <<>>
    /\ metrics = <<>>

(***************************************************************************)
(* What the caller of run_backtest gets (main.py line 56): the ledger, or  *)
(* an exception.                                                           *)
(***************************************************************************)
returned_call(ledger) == [outcome |-> "returned", ledger |-> ledger]
raised_call == [outcome |-> "raised", ledger |-> <<>>]

(***************************************************************************)
(* Line 42-43: t has no entry in the decision table: continue.             *)
(***************************************************************************)
\* Variant: a date without decisions is treated as a hold and gets a row.
SkipDate_as_hold ==
    /\ pc = "loop"
    /\ i < NumDates - 1
    /\ i \notin DOMAIN signals_or_weights
    /\ rows' = Append(rows, [date |-> i, cash |-> cash, pos |-> shares,
                             total_value |-> portfolio_value(cash, shares, i)])
    /\ i' = i + 1
    /\ UNCHANGED <<strategy, config, inputs, evaluation, ledgers, cash, shares, k,
                   port_val, pc, before>>

SkipDate ==
    /\ pc = "loop"
    /\ i < NumDates - 1
    /\ i \notin DOMAIN signals_or_weights
    /\ i' = i + 1
    /\ UNCHANGED <<strategy, config, inputs, evaluation, ledgers, cash, shares, rows,
                   k, port_val, pc, before>>

(***************************************************************************)
(* Lines 45-53: decisions = signals_or_weights.loc[t]; in weight mode the  *)
(* portfolio value is snapshotted before the ticker loop.                  *)
(***************************************************************************)
StartDate ==
    /\ pc = "loop"
    /\ i < NumDates - 1
    /\ i \in DOMAIN signals_or_weights
    /\ port_val' = IF mode = "weights"
                   THEN portfolio_value(cash, shares, i)
                   ELSE port_val
    /\ k' = 1
    /\ pc' = "trade"
    /\ UNCHANGED <<strategy, config, inputs, evaluation, ledgers, cash, shares, rows,
                   i, before>>

(***************************************************************************)
(* prices_open.at[t_next, tk] with t_next = prices_open.index[i+1]: the    *)
(* price every trade decided at date t is executed at.                     *)
(***************************************************************************)
\* Variant: the trade is executed at the open of the decision bar itself.
exec_open_same_bar(t, tk) == prices_open[t][tk]

exec_open(t, tk) == prices_open[t + 1][tk]

(***************************************************************************)
(* Lines 55-61: the body of the weight-mode ticker loop, on cash c and the *)
(* held shares of one ticker; pv is the snapshot of line 50, w the target  *)
(* weight in 1/WeightScale.                                                *)
(***************************************************************************)
\* Variant: a purchase is capped by the cash at hand (a sequential,
\* cash-constrained allocation).
weight_trade_cash_constrained(c, held, pv, w, close, open) ==
    LET target_num  == pv * w
        current_val == held * close
        diff_num    == target_num - current_val * WeightScale
        price       == apply_cost(open, "buy")
        wanted      == diff_num \div (price * WeightScale)
        affordable  == IF c > 0 THEN c \div price ELSE 0
        n_shares    == IF wanted > affordable THEN affordable ELSE wanted
    IN  [cash |-> c - n_shares * price, held |-> held + n_shares]

\* Variant: int(diff_val / price), which truncates toward zero.
weight_trade_truncating(c, held, pv, w, close, open) ==
    LET target_num  == pv * w
        current_val == held * close
        diff_num    == target_num - current_val * WeightScale
        price       == apply_cost(open, "buy")
        n_shares    == IF diff_num >= 0
                       THEN diff_num \div (price * WeightScale)
                       ELSE -((-diff_num) \div (price * WeightScale))
    IN  [cash |-> c - n_shares * price, held |-> held + n_shares]

\* Variant: the share count is rounded to the nearest whole share.
weight_trade_nearest(c, held, pv, w, close, open) ==
    LET target_num  == pv * w
        current_val == held * close
        diff_num    == target_num - current_val * WeightScale
        price       == apply_cost(open, "buy")
        n_shares    == (2 * diff_num + price * WeightScale)
                           \div (2 * price * WeightScale)
    IN  [cash |-> c - n_shares * price, held |-> held + n_shares]

weight_trade(c, held, pv, w, close, open) ==
    LET target_num  == pv * w                     \* target_val * WeightScale
        current_val == held * close
        diff_num    == target_num - current_val * WeightScale
        price       == apply_cost(open, "buy")
        n_shares    == diff_num \div (price * WeightScale)
    IN  [cash |-> c - n_shares * price, held |-> held + n_shares]

\* Lines 54-61 as a whole: the loop over the tickers in the given order,
\* from cash c and shares sh, every target taken from the one snapshot pv.
RECURSIVE weights_rebalance(_, _, _, _, _)
weights_rebalance(order, c, sh, pv, t) ==
    IF order = <<>> THEN [cash |-> c, shares |-> sh]
    ELSE LET tk  == Head(order)
             res == weight_trade(c, sh[tk], pv, signals_or_weights[t][tk],
                                 prices_close[t][tk], exec_open(t, tk))
         IN  weights_rebalance(Tail(order), res.cash,
                               [sh EXCEPT ![tk] = res.held], pv, t)

TradeWeights ==
    /\ pc = "trade"
    /\ mode = "weights"
    /\ k <= Len(tickers)
    /\ LET tk  == tickers[k]
           res == weight_trade(cash, shares[tk], port_val,
                               signals_or_weights[i][tk],
                               prices_close[i][tk], exec_open(i, tk))
       IN  IF apply_cost(exec_open(i, tk), "buy") = 0
           THEN \* diff_val // 0.0 is inf or nan, and int() of it raises
                /\ pc' = "raised"
                /\ ledgers' = Append(ledgers, raised_call)
                /\ UNCHANGED <<cash, shares, before, k>>
           ELSE /\ cash' = res.cash
                /\ shares' = [shares EXCEPT ![tk] = res.held]
                /\ before' = [cash |-> cash, shares |-> shares]
                /\ k' = k + 1
                /\ UNCHANGED <<pc, ledgers>>
    /\ UNCHANGED <<strategy, config, inputs, evaluation, rows, i, port_val>>

(***************************************************************************)
(* Lines 67-74: the body of the signal-mode ticker loop, on cash c and the *)
(* held shares of one ticker.                                              *)
(***************************************************************************)
\* Variant: a share is bought only from cash strictly above its price.
signals_buy_n_shares_strict(c, open) == (c - 1) \div open

signals_buy_n_shares(c, open) == c \div open

\* Variant: every decision other than "sell" buys.
signal_trade_hold_buys(c, held, sig, open) ==
    IF sig # "sell" /\ c >= open
    THEN LET n_shares == signals_buy_n_shares(c, open)
         IN  [cash |-> c - n_shares * apply_cost(open, "buy"),
              held |-> held + n_shares]
    ELSE IF sig = "sell" /\ held > 0
    THEN [cash |-> c + held * apply_cost(open, "sell"), held |-> 0]
    ELSE [cash |-> c, held |-> held]

\* Variant: a "sell" without a position sells one share short.
signal_trade_short(c, held, sig, open) ==
    IF sig = "buy" /\ c >= open
    THEN LET n_shares == signals_buy_n_shares(c, open)
         IN  [cash |-> c - n_shares * apply_cost(open, "buy"),
              held |-> held + n_shares]
    ELSE IF sig = "sell" /\ held > 0
    THEN [cash |-> c + held * apply_cost(open, "sell"), held |-> 0]
    ELSE IF sig = "sell"
    THEN [cash |-> c + apply_cost(open, "sell"), held |-> held - 1]
    ELSE [cash |-> c, held |-> held]

\* Variant: a "buy" is not checked against the cash at hand.
signal_trade_unguarded(c, held, sig, open) ==
    IF sig = "buy"
    THEN LET n_shares == signals_buy_n_shares(c, open)
         IN  [cash |-> c - n_shares * apply_cost(open, "buy"),
              held |-> held + n_shares]
    ELSE IF sig = "sell" /\ held > 0
    THEN [cash |-> c + held * apply_cost(open, "sell"), held |-> 0]
    ELSE [cash |-> c, held |-> held]

\* Variant: a sale is settled at the raw open, without the cost adjustment.
signal_trade_sell_uncosted(c, held, sig, open) ==
    IF sig = "buy" /\ c >= open
    THEN LET n_shares == signals_buy_n_shares(c, open)
         IN  [cash |-> c - n_shares * apply_cost(open, "buy"),
              held |-> held + n_shares]
    ELSE IF sig = "sell" /\ held > 0
    THEN [cash |-> c + held * open, held |-> 0]
    ELSE [cash |-> c, held |-> held]

signal_trade(c, held, sig, open) ==
    IF sig = "buy" /\ c >= open
    THEN LET n_shares == signals_buy_n_shares(c, open)
         IN  [cash |-> c - n_shares * apply_cost(open, "buy"),
              held |-> held + n_shares]
    ELSE IF sig = "sell" /\ held > 0
    THEN [cash |-> c + held * apply_cost(open, "sell"), held |-> 0]
    ELSE [cash |-> c, held |-> held]

\* Lines 65-74 as a whole: the loop over the tickers in the given order,
\* from cash c and shares sh.
RECURSIVE signals_in_order(_, _, _, _)
signals_in_order(order, c, sh, t) ==
    IF order = <<>> THEN [cash |-> c, shares |-> sh]
    ELSE LET tk  == Head(order)
             res == signal_trade(c, sh[tk], signals_or_weights[t][tk],
                                 exec_open(t, tk))
         IN  signals_in_order(Tail(order), res.cash,
                              [sh EXCEPT ![tk] = res.held], t)

\* Variant: the tickers of a date are processed from the last to the first.
TradeSignals_reverse_order ==
    /\ pc = "trade"
    /\ mode = "signals"
    /\ k <= Len(tickers)
    /\ LET tk  == tickers[Len(tickers) - k + 1]
           sig == signals_or_weights[i][tk]
           res == signal_trade(cash, shares[tk], sig, exec_open(i, tk))
       IN  IF sig = "buy" /\ cash >= exec_open(i, tk) /\ exec_open(i, tk) = 0
           THEN \* cash // 0.0 is inf or nan, and int() of it raises
                /\ pc' = "raised"
                /\ ledgers' = Append(ledgers, raised_call)
                /\ UNCHANGED <<cash, shares, before, k>>
           ELSE /\ cash' = res.cash
                /\ shares' = [shares EXCEPT ![tk] = res.held]
                /\ before' = [cash |-> cash, shares |-> shares]
                /\ k' = k + 1
                /\ UNCHANGED <<pc, ledgers>>
    /\ UNCHANGED <<strategy, config, inputs, evaluation, rows, i, port_val>>

TradeSignals ==
    /\ pc = "trade"
    /\ mode = "signals"
    /\ k <= Len(tickers)
    /\ LET tk  == tickers[k]
           sig == signals_or_weights[i][tk]
           res == signal_trade(cash, shares[tk], sig, exec_open(i, tk))
       IN  IF sig = "buy" /\ cash >= exec_open(i, tk) /\ exec_open(i, tk) = 0
           THEN \* cash // 0.0 is inf or nan, and int() of it raises
                /\ pc' = "raised"
                /\ ledgers' = Append(ledgers, raised_call)
                /\ UNCHANGED <<cash, shares, before, k>>
           ELSE /\ cash' = res.cash
                /\ shares' = [shares EXCEPT ![tk] = res.held]
                /\ before' = [cash |-> cash, shares |-> shares]
                /\ k' = k + 1
                /\ UNCHANGED <<pc, ledgers>>
    /\ UNCHANGED <<strategy, config, inputs, evaluation, rows, i, port_val>>

(***************************************************************************)
(* Lines 77-88: value the book and append the ledger row of date t, once   *)
(* the ticker loop of the mode is over (a mode that is neither "weights"   *)
(* nor "signals" has none).                                                *)
(***************************************************************************)
\* Variant: the book is valued at the close of t_next.
ledger_row_next_close(t, c, sh) ==
    [date |-> t, cash |-> c, total_value |-> portfolio_value(c, sh, t + 1),
     pos |-> sh]

ledger_row(t, c, sh) ==
    [date |-> t, cash |-> c, total_value |-> portfolio_value(c, sh, t),
     pos |-> sh]

\* Variant: a row is appended only when the book changed since the last row.
RecordRow_on_change ==
    /\ pc = "trade"
    /\ k > Len(tickers) \/ mode \notin {"weights", "signals"}
    /\ port_val' = portfolio_value(cash, shares, i)
    /\ rows' = IF rows # <<>> /\ rows[Len(rows)].cash = cash
                              /\ rows[Len(rows)].pos = shares
               THEN rows
               ELSE Append(rows, ledger_row(i, cash, shares))
    /\ i' = i + 1
    /\ k' = 0
    /\ pc' = "loop"
    /\ UNCHANGED <<strategy, config, inputs, evaluation, ledgers, cash, shares, before>>

RecordRow ==
    /\ pc = "trade"
    /\ k > Len(tickers) \/ mode \notin {"weights", "signals"}
    /\ port_val' = portfolio_value(cash, shares, i)
    /\ rows' = Append(rows, ledger_row(i, cash, shares))
    /\ i' = i + 1
    /\ k' = 0
    /\ pc' = "loop"
    /\ UNCHANGED <<strategy, config, inputs, evaluation, ledgers, cash, shares, before>>

(***************************************************************************)
(* Line 90: pd.DataFrame(rows).set_index("date"); a frame built from an    *)
(* empty list has no "date" column and set_index raises KeyError.          *)
(***************************************************************************)
Return ==
    /\ pc = "loop"
    /\ i >= NumDates - 1
    /\ pc' = IF rows = <<>> THEN "raised" ELSE "done"
    /\ ledgers' = Append(ledgers, IF rows = <<>> THEN raised_call
                                  ELSE returned_call(rows))
    /\ UNCHANGED <<strategy, config, inputs, evaluation, cash, shares, rows, i, k,
                   port_val, before>>

Next ==
    \/ SkipDate
    \/ StartDate
    \/ TradeWeights
    \/ TradeSignals
    \/ RecordRow
    \/ Return

Spec == Init /\ [][Next]_vars

(***************************************************************************)
(* class Evaluation (trading_env.py lines 94-119): pure functions of a     *)
(* value series, here a sequence of positive integers.  A result is a      *)
(* record: nan tells a NaN; of annualized_return and sharpe the model      *)
(* keeps the sign (-1, 0, 1), which the power and the positive scaling     *)
(* leave unchanged; max_drawdown is the exact fraction num/den.            *)
(***************************************************************************)
NaN == [nan |-> TRUE]
Signed(x) == [nan |-> FALSE, sign |-> IF x > 0 THEN 1 ELSE IF x < 0 THEN -1 ELSE 0]
Fraction(n, d) == [nan |-> FALSE, num |-> n, den |-> d]

\* annualized_return, lines 100-106: (1 + total_ret) ** (1 / years) - 1 with
\* years = n / 252 > 0 has the sign of total_ret = value[-1] / value[0] - 1.
annualized_return(v) ==
    LET n == Len(v)
    IN  IF n <= 1 THEN Signed(0)
        ELSE Signed(v[n] - v[1])

\* value.pct_change().dropna(): the n - 1 returns (v[j+1] - v[j]) / v[j],
\* each a pair <<numerator, denominator>>.
pct_change(v) ==
    [j \in 1..(IF Len(v) = 0 THEN 0 ELSE Len(v) - 1) |-> <<v[j + 1] - v[j], v[j]>>]

\* The sum of a sequence of fractions, as a pair <<numerator, denominator>>.
RECURSIVE fraction_sum(_)
fraction_sum(r) ==
    IF r = <<>> THEN <<0, 1>>
    ELSE LET rest == fraction_sum(Tail(r))
         IN  <<Head(r)[1] * rest[2] + rest[1] * Head(r)[2], Head(r)[2] * rest[2]>>

\* sharpe, lines 109-113: r.std() is the sample deviation (ddof = 1), NaN
\* for a single return and otherwise >= 0, so that std + 1e-12 > 0 and the
\* result has the sign of r.mean().
sharpe(v) ==
    LET r == pct_change(v)
    IN  IF Len(r) = 0 THEN Signed(0)
        ELSE IF Len(r) = 1 THEN NaN
        ELSE Signed(fraction_sum(r)[1])

\* value.cummax() at position j
RECURSIVE cummax(_, _)
cummax(v, j) ==
    IF j = 1 THEN v[1]
    ELSE LET m == cummax(v, j - 1) IN IF v[j] > m THEN v[j] ELSE m

\* Variant: the drawdown is taken from the maximum of the whole series.
peak_of_whole_series(v, j) == cummax(v, Len(v))

peak(v, j) == cummax(v, j)

\* max_drawdown, lines 116-119: the least of value / peak - 1; the min() of
\* an empty series is NaN.
max_drawdown(v) ==
    IF v = <<>> THEN NaN
    ELSE LET dd == [j \in 1..Len(v) |-> <<v[j] - peak(v, j), peak(v, j)>>]
             least == CHOOSE j \in 1..Len(v) :
                          \A l \in 1..Len(v) :
                              dd[j][1] * dd[l][2] <= dd[l][1] * dd[j][2]
         IN  Fraction(dd[least][1], dd[least][2])

(***************************************************************************)
(* The metrics of a value series, computed in the order of main.py lines   *)
(* 63-65.  The series is any sequence of up to MaxSeries values.           *)
(***************************************************************************)
EvalInit ==
    /\ NoStrategyCall
    /\ InitWith({100000 * Scale}, {"signals"}, {0}, {<<"X">>}, {"flat"}, 0, 0)
    /\ \E n \in 0..MaxSeries : value \in [1..n -> ValueVals]
    /\ metrics = <<>>

EvalAnnualizedReturn ==
    /\ Len(metrics) = 0
    /\ metrics' = Append(metrics, annualized_return(value))
    /\ UNCHANGED <<strategy, config, inputs, locals, ledgers, value>>

EvalSharpe ==
    /\ Len(metrics) = 1
    /\ metrics' = Append(metrics, sharpe(value))
    /\ UNCHANGED <<strategy, config, inputs, locals, ledgers, value>>

EvalMaxDrawdown ==
    /\ Len(metrics) = 2
    /\ metrics' = Append(metrics, max_drawdown(value))
    /\ UNCHANGED <<strategy, config, inputs, locals, ledgers, value>>

EvalNext ==
    \/ EvalAnnualizedReturn
    \/ EvalSharpe
    \/ EvalMaxDrawdown

EvalSpec == EvalInit /\ [][EvalNext]_vars

(***************************************************************************)
(* Runs on whatever the constructor and run_backtest accept: __init__      *)
(* (lines 5-21) stores its arguments as given and run_backtest reads the   *)
(* frames as given, so a negative cost setting, a cash that is not         *)
(* positive, an unknown mode, an empty ticker list and a zero open price   *)
(* all reach the loop.                                                     *)
(***************************************************************************)
UncheckedCashVals == {250 * Scale, 0, -(250 * Scale)}
UncheckedModes == {"signals", "weights", "other"}
UncheckedCostVals == {-1, 0, 1}
UncheckedTickerLists == {<<>>, <<"X">>, <<"X", "Y">>}
UncheckedFrames == {"flat", "zero"}

UncheckedInit ==
    /\ NoStrategyCall
    /\ InitWith(UncheckedCashVals, UncheckedModes, UncheckedCostVals,
                UncheckedTickerLists, UncheckedFrames,
                UncheckedMaxDates, UncheckedMaxCells)
    /\ value = <<>>
    /\ metrics = <<>>

UncheckedSpec == UncheckedInit /\ [][Next]_vars

(***************************************************************************)
(* Repeated calls of run_backtest on one environment with the same three   *)
(* arguments: a call starts at lines 34-36 whatever the previous call did. *)
(***************************************************************************)
\* Variant: the book is kept on the environment and a later call resumes it.
Call_resuming_book ==
    /\ pc \in {"done", "raised"}
    /\ Len(ledgers) < MaxCalls
    /\ rows' = <<>>
    /\ i' = 0
    /\ k' = 0
    /\ port_val' = 0
    /\ pc' = "loop"
    /\ before' = [cash |-> cash, shares |-> shares]
    /\ UNCHANGED <<strategy, config, inputs, evaluation, ledgers, cash, shares>>

Call ==
    /\ pc \in {"done", "raised"}
    /\ Len(ledgers) < MaxCalls
    /\ cash' = initial_cash
    /\ shares' = [tk \in Range(tickers) |-> 0]
    /\ rows' = <<>>
    /\ i' = 0
    /\ k' = 0
    /\ port_val' = 0
    /\ pc' = "loop"
    /\ before' = [cash |-> initial_cash,
                  shares |-> [tk \in Range(tickers) |-> 0]]
    /\ UNCHANGED <<strategy, config, inputs, evaluation, ledgers>>

TwiceInit ==
    /\ NoStrategyCall
    /\ InitWith(InitialCashVals, {"signals", "weights"}, CostVals, TickerLists,
                Frames, TwiceMaxDates, TwiceMaxCells)
    /\ value = <<>>
    /\ metrics = <<>>

TwiceNext ==
    \/ SkipDate
    \/ StartDate
    \/ TradeWeights
    \/ TradeSignals
    \/ RecordRow
    \/ Return
    \/ Call

TwiceSpec == TwiceInit /\ [][TwiceNext]_vars

(***************************************************************************)
(* ma_crossover_signals (Lab_4_Forecast_Model.py lines 67-74).  A series   *)
(* is a sequence of prices, Missing where to_numeric yields NaN.  A        *)
(* rolling mean is a record: nan, or the window's sum and length.          *)
(***************************************************************************)
\* No backtest and no evaluation is under way.
NoBacktestCall ==
    /\ InitWith({100000 * Scale}, {"signals"}, {0}, {<<"X">>}, {"flat"}, 0, 0)
    /\ value = <<>>
    /\ metrics = <<>>

backtest == <<config, inputs, locals, ledgers, evaluation>>

RECURSIVE window_sum(_, _, _)
window_sum(px, j, w) ==
    IF w = 0 THEN 0 ELSE px[j] + window_sum(px, j - 1, w - 1)

\* Variant: rolling(w, min_periods=1), the mean of the prices at hand.
rolling_mean_min_periods_1(px, w, j) ==
    LET n == IF j < w THEN j ELSE w
    IN  IF \E l \in (j - n + 1)..j : px[l] = Missing
        THEN [nan |-> TRUE, sum |-> 0, n |-> 1]
        ELSE [nan |-> FALSE, sum |-> window_sum(px, j, n), n |-> n]

\* px.rolling(w).mean() at position j: min_periods is w, so the mean is NaN
\* before w observations and wherever the window holds a NaN.
rolling_mean(px, w, j) ==
    IF j < w \/ \E l \in (j - w + 1)..j : px[l] = Missing
    THEN [nan |-> TRUE, sum |-> 0, n |-> 1]
    ELSE [nan |-> FALSE, sum |-> window_sum(px, j, w), n |-> w]

ma_crossover_signals(px, f, s) ==
    [j \in 1..Len(px) |->
        LET fast_ma == rolling_mean(px, f, j)
            slow_ma == rolling_mean(px, s, j)
            \* the sign of diff = fast_ma - slow_ma
            diff == fast_ma.sum * slow_ma.n - slow_ma.sum * fast_ma.n
        IN  IF fast_ma.nan \/ slow_ma.nan THEN "hold"
            ELSE IF diff > 0 THEN "buy"
            ELSE IF diff < 0 THEN "sell"
            ELSE "hold"]

MaInit ==
    /\ NoBacktestCall
    /\ \E n \in 0..MaxObs : ma_close \in [1..n -> CloseVals \cup {Missing}]
    /\ fast \in 1..MaxWindow
    /\ slow \in 1..MaxWindow
    /\ ma_sig = <<>>
    /\ df = <<>>
    /\ short_window = 1
    /\ long_window = 1
    /\ df_with_pos = <<>>
    /\ wide = <<>>
    /\ cash_buffer = 0
    /\ rebalance = "daily"
    /\ weights = <<>>
    /\ stage = "args"

MaCrossoverSignals ==
    /\ stage = "args"
    /\ ma_sig' = ma_crossover_signals(ma_close, fast, slow)
    /\ stage' = "returned"
    /\ UNCHANGED <<backtest, ma_close, fast, slow, df, short_window, long_window,
                   df_with_pos, wide, cash_buffer, rebalance, weights>>

MaNext == MaCrossoverSignals

MaSpec == MaInit /\ [][MaNext]_vars

(***************************************************************************)
(* sma_crossover and actions_table (base_algorithm.py lines 206-270).  A   *)
(* frame is a function from the tickers to their columns, sorted by date   *)
(* (ensure_sorted); every ticker has the same dates.  df_with_pos is a     *)
(* record of the columns signal and position.                              *)
(***************************************************************************)
\* s.rolling(w, min_periods=1).mean() at position j, as <<sum, length>>
sma(s, w, j) ==
    LET n == IF j < w THEN j ELSE w
    IN  <<window_sum(s, j, n), n>>

\* z["signal"] = (z["sma_s"] > z["sma_l"]).astype(int)
sma_signal(s, sw, lw) ==
    [j \in 1..Len(s) |->
        LET sma_s == sma(s, sw, j)
            sma_l == sma(s, lw, j)
        IN  IF sma_s[1] * sma_l[2] > sma_l[1] * sma_s[2] THEN 1 ELSE 0]

\* Variant: the position is the signal of the same observation.
position_same_bar(signal) == signal

\* groupby("ticker")["signal"].shift(1).fillna(0).astype(int)
position_lagged(signal) ==
    [j \in 1..Len(signal) |-> IF j = 1 THEN 0 ELSE signal[j - 1]]

sma_crossover(frame, sw, lw) ==
    [signal   |-> [tk \in DOMAIN frame |-> sma_signal(frame[tk], sw, lw)],
     position |-> [tk \in DOMAIN frame |->
                      position_lagged(sma_signal(frame[tk], sw, lw))]]

\* Variant: the previous position is taken to be 0 throughout.
pos_prev_flat(position) == [j \in 1..Len(position) |-> 0]

\* groupby("ticker")["position"].shift(1).fillna(0).astype(int)
pos_prev(position) ==
    [j \in 1..Len(position) |-> IF j = 1 THEN 0 ELSE position[j - 1]]

\* diff.map({1: "buy", -1: "sell"}).fillna("hold"), pivoted by ticker
actions_table(z) ==
    [tk \in DOMAIN z.position |->
        [j \in 1..Len(z.position[tk]) |->
            LET diff == z.position[tk][j] - pos_prev(z.position[tk])[j]
            IN  IF diff = 1 THEN "buy"
                ELSE IF diff = -1 THEN "sell"
                ELSE "hold"]]

SmaInit ==
    /\ NoBacktestCall
    /\ ma_close = <<>>
    /\ fast = 1
    /\ slow = 1
    /\ ma_sig = <<>>
    /\ \E T \in (SUBSET AllTickers) \ {{}}, n \in 0..SmaMaxObs :
         df \in [T -> [1..n -> SmaCloseVals]]
    /\ short_window \in 1..MaxWindow
    /\ long_window \in 1..MaxWindow
    /\ df_with_pos = <<>>
    /\ wide = <<>>
    /\ cash_buffer = 0
    /\ rebalance = "daily"
    /\ weights = <<>>
    /\ stage = "args"

SmaCrossover ==
    /\ stage = "args"
    /\ df_with_pos' = sma_crossover(df, short_window, long_window)
    /\ stage' = "positions"
    /\ UNCHANGED <<backtest, ma_close, fast, slow, ma_sig, df, short_window,
                   long_window, wide, cash_buffer, rebalance, weights>>

ActionsTable ==
    /\ stage = "positions"
    /\ wide' = actions_table(df_with_pos)
    /\ stage' = "actions"
    /\ UNCHANGED <<backtest, ma_close, fast, slow, ma_sig, df, short_window,
                   long_window, df_with_pos, cash_buffer, rebalance, weights>>

SmaNext ==
    \/ SmaCrossover
    \/ ActionsTable

SmaSpec == SmaInit /\ [][SmaNext]_vars

(***************************************************************************)
(* weights_table (base_algorithm.py lines 273-336).  Weights and the cash  *)
(* buffer are exact multiples of 1/One; df_with_pos carries the position   *)
(* column, ticker -> 0/1 per date, and the tickers argument is left at its *)
(* default (all tickers of the frame).                                     *)
(***************************************************************************)
num_dates(z) ==
    LET tk == CHOOSE tk \in DOMAIN z.position : TRUE
    IN  Len(z.position[tk])

\* pos_wide: row j of the pivoted position matrix
pos_wide(z, j) == [tk \in DOMAIN z.position |-> z.position[tk][j]]

RECURSIVE row_sum(_, _)
row_sum(row, cols) ==
    IF cols = {} THEN 0
    ELSE LET c == CHOOSE c \in cols : TRUE
         IN  row[c] + row_sum(row, cols \ {c})

\* Variant: the cash column is the cash buffer on every date.
cash_col_always_buffer(kk, b) == b

\* np.where(k.values > 0, cash_buffer, 1.0)
cash_col(kk, b) == IF kk > 0 THEN b ELSE One

\* One row of pd.concat([cash_col, weights_stocks], axis=1):
\* pos_wide.div(k.replace(0, np.nan)).fillna(0.0) * alloc_stocks
daily_row(z, b, j) ==
    LET pos == pos_wide(z, j)
        kk  == row_sum(pos, DOMAIN pos)
        alloc_stocks == One - b
    IN  [c \in DOMAIN pos \cup {"CASH"} |->
            IF c = "CASH" THEN cash_col(kk, b)
            ELSE IF kk = 0 THEN 0
            ELSE (pos[c] * alloc_stocks) \div kk]

\* Variant: a date counts as changed when it differs from the next date.
changed_from_next(z, j) ==
    \E tk \in DOMAIN z.position :
        z.position[tk][j]
          # (IF j = num_dates(z) THEN 0 ELSE z.position[tk][j + 1])

\* Variant: a date counts as changed when the number of positions changed.
changed_by_count(z, j) ==
    row_sum(pos_wide(z, j), DOMAIN z.position)
      # (IF j = 1 THEN 0
         ELSE row_sum(pos_wide(z, j - 1), DOMAIN z.position))

\* (pos_wide != pos_wide.shift(1).fillna(0.0)).any(axis=1)
changed(z, j) ==
    \E tk \in DOMAIN z.position :
        z.position[tk][j] # (IF j = 1 THEN 0 ELSE z.position[tk][j - 1])

\* Row j after the loop of lines 327-329 has reached it.
RECURSIVE carried_row(_, _, _)
carried_row(z, b, j) ==
    IF j > 1 /\ ~changed(z, j) THEN carried_row(z, b, j - 1)
    ELSE daily_row(z, b, j)

\* weights.div(weights.sum(axis=1), axis=0), one row
normalised(row) ==
    LET total == row_sum(row, DOMAIN row)
    IN  [c \in DOMAIN row |-> (row[c] * One) \div total]

weights_table(z, b, rb) ==
    [j \in 1..num_dates(z) |->
        IF rb = "on_signal" THEN normalised(carried_row(z, b, j))
        ELSE daily_row(z, b, j)]

WeightsInit ==
    /\ NoBacktestCall
    /\ ma_close = <<>>
    /\ fast = 1
    /\ slow = 1
    /\ ma_sig = <<>>
    /\ df = <<>>
    /\ short_window = 1
    /\ long_window = 1
    /\ \E T \in TableTickerSets, n \in 0..MaxObs :
         \E P \in [T -> [1..n -> {0, 1}]] : df_with_pos = [position |-> P]
    /\ wide = <<>>
    /\ cash_buffer \in CashBufferVals
    /\ rebalance \in {"daily", "on_signal"}
    /\ weights = <<>>
    /\ stage = "args"

WeightsTable ==
    /\ stage = "args"
    /\ weights' = weights_table(df_with_pos, cash_buffer, rebalance)
    /\ stage' = "weights"
    /\ UNCHANGED <<backtest, ma_close, fast, slow, ma_sig, df, short_window,
                   long_window, df_with_pos, wide, cash_buffer, rebalance>>

WeightsNext == WeightsTable

WeightsSpec == WeightsInit /\ [][WeightsNext]_vars

(***************************************************************************)
(* Vocabulary of the properties.                                           *)
(***************************************************************************)
RowSet == Range(rows)
LastDate == NumDates - 1
TickerSet == Range(tickers)
Dollars(n) == n * Scale

\* Sum over the tickers of S of pos[tk] * px[tk].
RECURSIVE PositionValue(_, _, _)
PositionValue(S, pos, px) ==
    IF S = {} THEN 0
    ELSE LET tk == CHOOSE x \in S : TRUE
         IN  pos[tk] * px[tk] + PositionValue(S \ {tk}, pos, px)

\* The ticker loop has just processed ticker JustTk on decision JustSig,
\* executing at open price JustOpen; `before` holds what it started from.
JustTraded == pc = "trade" /\ k >= 2
JustTk == tickers[k - 1]
JustSig == signals_or_weights[i][JustTk]
JustOpen == prices_open[i + 1][JustTk]
TotalBps == transaction_cost_bps + slippage_bps
\* open * (1 + total_bps) and open * (1 - total_bps), open being whole dollars
CostAdjustedBuy(open) == (open \div Scale) * (Scale + TotalBps)
CostAdjustedSell(open) == (open \div Scale) * (Scale - TotalBps)

(***************************************************************************)
(* C1: in either mode, every ledger row has                                *)
(*   total_value = cash + sum over tickers of pos * close on the row's     *)
(*   date, with the cash and positions of that same row.                   *)
(***************************************************************************)
C1_TotalValueIdentity ==
    \A r \in RowSet :
        r.total_value
          = r.cash + PositionValue(TickerSet, r.pos, prices_close[r.date])

\* A weight-mode row holding both tickers at closes that differ from the
\* opens they were bought at.
C1_Witness ==
    /\ mode = "weights"
    /\ Len(tickers) = 2
    /\ \E r \in RowSet :
         /\ \A tk \in TickerSet : r.pos[tk] > 0
         /\ \E tk \in TickerSet :
              prices_close[r.date][tk] # prices_open[r.date + 1][tk]

(***************************************************************************)
(* C2: in signal mode, with non-negative cost settings and positive        *)
(* prices, the cash of every ledger row is >= 0.                           *)
(***************************************************************************)
C2_CashNeverNegative ==
    mode = "signals" => \A r \in RowSet : r.cash >= 0

(***************************************************************************)
(* C3: in signal mode a "buy" that executes purchases                      *)
(*   floor(cash / (open of t_next * (1 + total_bps))) shares               *)
(* and reduces cash by shares * that cost-adjusted price.                  *)
(***************************************************************************)
C3_BuySizedByCostAdjustedPrice ==
    (/\ mode = "signals"
     /\ JustTraded
     /\ JustSig = "buy"
     /\ before.cash >= JustOpen)
    => LET bought == shares[JustTk] - before.shares[JustTk]
       IN  /\ bought = before.cash \div CostAdjustedBuy(JustOpen)
           /\ cash = before.cash - bought * CostAdjustedBuy(JustOpen)

(***************************************************************************)
(* C4: signal mode, zero costs, initial_cash 100000, one ticker with       *)
(* open = close = 100 on 5 dates, decisions [hold, buy, hold, sell, hold]: *)
(* the row of the buy date has 1000 shares and cash 0, the row of the sell *)
(* date has 0 shares and cash 100000, the last row has total_value 100000. *)
(***************************************************************************)
C4_Scenario ==
    /\ mode = "signals"
    /\ transaction_cost_bps = 0 /\ slippage_bps = 0
    /\ initial_cash = Dollars(100000)
    /\ tickers = <<"X">>
    /\ NumDates = 5
    /\ \A d \in DOMAIN prices_open :
         prices_open[d]["X"] = Dollars(100) /\ prices_close[d]["X"] = Dollars(100)
    /\ DOMAIN signals_or_weights = 0..4
    /\ <<signals_or_weights[0]["X"], signals_or_weights[1]["X"],
         signals_or_weights[2]["X"], signals_or_weights[3]["X"],
         signals_or_weights[4]["X"]>>
         = <<"hold", "buy", "hold", "sell", "hold">>

C4_BuyHoldSellScenario ==
    (C4_Scenario /\ pc \in {"done", "raised"})
    => /\ pc = "done"
       /\ \E r \in RowSet :
            r.date = 1 /\ r.pos["X"] = 1000 /\ r.cash = 0
       /\ \E r \in RowSet :
            r.date = 3 /\ r.pos["X"] = 0 /\ r.cash = Dollars(100000)
       /\ rows[Len(rows)].total_value = Dollars(100000)
       /\ \A r1, r2 \in RowSet : r1.date = r2.date => r1 = r2

C4_Witness == C4_Scenario /\ pc = "done"

(***************************************************************************)
(* C5: in signal mode, when every decision of the table is "hold", every   *)
(* ledger row has cash = initial_cash, every position 0 and                *)
(* total_value = initial_cash, whatever the prices and the cost settings.  *)
(***************************************************************************)
C5_AllHold ==
    \A d \in DOMAIN signals_or_weights, tk \in TickerSet :
        signals_or_weights[d][tk] = "hold"

C5_AllHoldLeavesBookUnchanged ==
    (mode = "signals" /\ C5_AllHold)
    => /\ cash = initial_cash
       /\ \A tk \in TickerSet : shares[tk] = 0
       /\ \A r \in RowSet :
            /\ r.cash = initial_cash
            /\ \A tk \in TickerSet : r.pos[tk] = 0
            /\ r.total_value = initial_cash

\* An all-hold run over every date, with costs and moving prices, that has
\* written more than one row.
C5_Witness ==
    /\ mode = "signals"
    /\ C5_AllHold
    /\ DOMAIN signals_or_weights = DOMAIN prices_open
    /\ TotalBps > 0
    /\ \E d \in DOMAIN prices_open, tk \in TickerSet :
         prices_open[d][tk] # prices_close[d][tk]
    /\ Len(rows) >= 2

(***************************************************************************)
(* C6: in signal mode, processing a "sell" for a ticker whose position is  *)
(* 0 leaves cash and that ticker's position unchanged.                     *)
(***************************************************************************)
C6_SellOnFlat ==
    /\ mode = "signals"
    /\ JustTraded
    /\ JustSig = "sell"
    /\ before.shares[JustTk] = 0

C6_SellWithoutPositionIsNoOp ==
    C6_SellOnFlat
    => /\ cash = before.cash
       /\ shares[JustTk] = before.shares[JustTk]

\* ... in a state where the other ticker is held and cash is not the
\* initial cash, so that "unchanged" is not "reset".
C6_Witness ==
    /\ C6_SellOnFlat
    /\ cash # initial_cash
    /\ \E tk \in TickerSet : shares[tk] > 0

(***************************************************************************)
(* C7: every trade decided at a processed date t is priced at the open of  *)
(* t_next, the date right after t in the price index; the ledger row of t  *)
(* is valued at the close of t with the post-trade share counts; the final *)
(* date of the index is never processed: no trade is decided on it and no  *)
(* row carries it.                                                         *)
(***************************************************************************)
C7_TradePricedAtNextOpen ==
    JustTraded
    => LET traded == shares[JustTk] - before.shares[JustTk]
           open   == prices_open[i + 1][JustTk]
       IN  \/ before.cash - cash = traded * CostAdjustedBuy(open)
           \/ before.cash - cash = traded * CostAdjustedSell(open)

C7_RowValuedAtOwnClosePostTrade ==
    /\ \A r \in RowSet :
         r.total_value
           = r.cash + PositionValue(TickerSet, r.pos, prices_close[r.date])
    /\ (pc = "loop" /\ i >= 1 /\ (i - 1) \in DOMAIN signals_or_weights)
       => /\ rows # <<>>
          /\ rows[Len(rows)].date = i - 1
          /\ rows[Len(rows)].pos = shares
          /\ rows[Len(rows)].cash = cash

C7_FinalDateNeverProcessed ==
    /\ pc = "trade" => i < LastDate
    /\ \A r \in RowSet : r.date < LastDate

C7_NextOpenExecutionCloseValuation ==
    /\ C7_TradePricedAtNextOpen
    /\ C7_RowValuedAtOwnClosePostTrade
    /\ C7_FinalDateNeverProcessed

\* A trade that moved shares at a next open different from the decision
\* bar's open and close, after a row was already written.
C7_Witness ==
    /\ JustTraded
    /\ shares[JustTk] # before.shares[JustTk]
    /\ prices_open[i + 1][JustTk] # prices_open[i][JustTk]
    /\ prices_open[i + 1][JustTk] # prices_close[i][JustTk]
    /\ rows # <<>>
    /\ DOMAIN prices_open \subseteq DOMAIN signals_or_weights

(***************************************************************************)
(* C8: the returned ledger has exactly one row for each non-final price    *)
(* date that has an entry in the decision table, its dates are strictly    *)
(* increasing in index order, and rows are only appended during the run.   *)
(***************************************************************************)
C8_ProcessedDates(upto) ==
    {d \in DOMAIN signals_or_weights : d < upto /\ d < LastDate}

C8_RowsMatchProcessedDates ==
    /\ pc = "done" =>
         /\ {r.date : r \in RowSet} = C8_ProcessedDates(NumDates)
         /\ Len(rows) = Cardinality(C8_ProcessedDates(NumDates))
    /\ pc = "loop" =>
         /\ {r.date : r \in RowSet} = C8_ProcessedDates(i)
         /\ Len(rows) = Cardinality(C8_ProcessedDates(i))
    /\ \A m, n \in 1..Len(rows) : m < n => rows[m].date < rows[n].date

C8_AppendOnly ==
    /\ Len(rows') >= Len(rows)
    /\ SubSeq(rows', 1, Len(rows)) = rows

C8_LedgerOneRowPerProcessedDate ==
    [](C8_RowsMatchProcessedDates) /\ [][C8_AppendOnly]_vars

\* A returned ledger of several rows from a table that misses a non-final
\* date and has the final one.
C8_Witness ==
    /\ pc = "done"
    /\ Len(rows) >= 2
    /\ LastDate \in DOMAIN signals_or_weights
    /\ \E d \in DOMAIN prices_open :
         d < LastDate /\ d \notin DOMAIN signals_or_weights

(***************************************************************************)
(* C9: a price date t without an entry in the decision table gets no trade *)
(* and no ledger row, and cash and all positions are carried unchanged to  *)
(* the next processed date.                                                *)
(***************************************************************************)
C9_SkippedDate(d) == d \in DOMAIN prices_open /\ d \notin DOMAIN signals_or_weights

C9_SkippedDateLeavesNoTrace ==
    /\ \A r \in RowSet : ~C9_SkippedDate(r.date)
    /\ pc = "trade" => ~C9_SkippedDate(i)
    /\ (pc = "loop" /\ rows # <<>>)
       => cash = rows[Len(rows)].cash /\ shares = rows[Len(rows)].pos
    /\ (pc = "loop" /\ rows = <<>>)
       => cash = initial_cash /\ \A tk \in TickerSet : shares[tk] = 0

\* The loop stands at a date reached over a skipped one, holding shares.
C9_Witness ==
    /\ pc = "loop"
    /\ i >= 2
    /\ C9_SkippedDate(i - 1)
    /\ rows # <<>>
    /\ rows[Len(rows)].date = i - 2
    /\ \E tk \in TickerSet : shares[tk] > 0

(***************************************************************************)
(* C10: in signal mode every ticker's position in every ledger row is a    *)
(* non-negative whole number of shares.                                    *)
(***************************************************************************)
C10_SignalPositionsNonNegative ==
    mode = "signals"
    => /\ \A r \in RowSet : \A tk \in TickerSet : r.pos[tk] \in Nat
       /\ \A tk \in TickerSet : shares[tk] \in Nat

\* A ledger in which a position was bought and later sold, in a run whose
\* cash went negative at some row (the case in which an unguarded buy would
\* size a negative lot).
C10_Witness ==
    /\ mode = "signals"
    /\ Len(rows) >= 2
    /\ \E m, n \in 1..Len(rows) :
         /\ m < n
         /\ \E tk \in TickerSet : rows[m].pos[tk] > 0 /\ rows[n].pos[tk] = 0
    /\ \E r \in RowSet : r.cash < 0

(***************************************************************************)
(* Vocabulary of the weight-mode properties.                               *)
(***************************************************************************)
\* Cash and shares as the ticker loop of the current date found them: those
\* of the last row, or the initial ones (pc = "trade").
StartCash == IF rows = <<>> THEN initial_cash ELSE rows[Len(rows)].cash
StartShares == IF rows = <<>> THEN [tk \in TickerSet |-> 0]
               ELSE rows[Len(rows)].pos
JustWeight == signals_or_weights[i][JustTk]
JustTradedShares == shares[JustTk] - before.shares[JustTk]
\* n = floor(num / den), for den > 0
IsFloorOf(n, num, den) == n * den <= num /\ num < (n + 1) * den
Orders(S) ==
    {o \in [1..Cardinality(S) -> S] : \A a, b \in DOMAIN o : o[a] = o[b] => a = b}

(***************************************************************************)
(* C11: in weight mode with allow_short false and target fractions in      *)
(* [0, 1], every ticker's position in every ledger row is a non-negative   *)
(* whole number of shares, also when the next open differs from the close. *)
(***************************************************************************)
C11_WeightPositionsNonNegative ==
    mode = "weights"
    => \A r \in RowSet : \A tk \in TickerSet : r.pos[tk] \in Nat

(***************************************************************************)
(* C12: in weight mode, on each processed date and for each ticker, the    *)
(* share change is floor((PV * target - shares * close_t) / cost-adjusted  *)
(* open of t_next), PV = cash + sum shares * close_t taken before any      *)
(* trade of the date, and cash is reduced by share change * that price;    *)
(* two tickers with target 0.4 each, from zero positions, get              *)
(* floor(0.4 * PV / that price) shares each.  The cost-adjusted open is    *)
(* the one price line 58 computes, open * (1 + total_bps).                 *)
(***************************************************************************)
C12_TwoTickersFortyPercent ==
    /\ mode = "weights"
    /\ pc = "trade"
    /\ k > Len(tickers)
    /\ Len(tickers) = 2
    /\ \A tk \in TickerSet :
         signals_or_weights[i][tk] = 2 /\ StartShares[tk] = 0

C12_WeightShareChange ==
    (mode = "weights" /\ pc = "trade")
    => /\ port_val
            = StartCash + PositionValue(TickerSet, StartShares, prices_close[i])
       /\ JustTraded =>
            LET price == CostAdjustedBuy(prices_open[i + 1][JustTk])
                held  == before.shares[JustTk] * prices_close[i][JustTk]
            IN  /\ IsFloorOf(JustTradedShares,
                             port_val * JustWeight - held * WeightScale,
                             price * WeightScale)
                /\ cash = before.cash - JustTradedShares * price
       /\ C12_TwoTickersFortyPercent =>
            \A tk \in TickerSet :
                IsFloorOf(shares[tk], 2 * port_val,
                          5 * CostAdjustedBuy(prices_open[i + 1][tk]))

\* Both tickers newly positioned at 0.4 each, bought at differing prices.
C12_Witness ==
    /\ C12_TwoTickersFortyPercent
    /\ \A tk \in TickerSet : shares[tk] > 0
    /\ shares["X"] # shares["Y"]
    /\ TotalBps > 0

(***************************************************************************)
(* C13: in weight mode the cash and positions after a date's rebalance are *)
(* the same for every processing order of the tickers.                     *)
(***************************************************************************)
C13_RebalanceDone == mode = "weights" /\ pc = "trade" /\ k > Len(tickers)

C13_RebalanceOrderIndependent ==
    C13_RebalanceDone
    => \A order \in Orders(TickerSet) :
           weights_rebalance(order, StartCash, StartShares, port_val, i)
             = [cash |-> cash, shares |-> shares]

\* A rebalance of two held tickers towards different targets whose sum is
\* above 1, which moved both positions.
C13_Witness ==
    /\ C13_RebalanceDone
    /\ Len(tickers) = 2
    /\ signals_or_weights[i]["X"] # signals_or_weights[i]["Y"]
    /\ signals_or_weights[i]["X"] + signals_or_weights[i]["Y"] > WeightScale
    /\ \A tk \in TickerSet : StartShares[tk] > 0 /\ shares[tk] # StartShares[tk]

(***************************************************************************)
(* C14: every executed trade, in both modes, is priced open * (1 +         *)
(* total_bps) when shares are bought and open * (1 - total_bps) when       *)
(* shares are sold, total_bps = transaction_cost_bps + slippage_bps, and   *)
(* at the raw open when both settings are zero.                            *)
(***************************************************************************)
C14_CostSideFollowsTradeDirection ==
    JustTraded
    => LET open == prices_open[i + 1][JustTk]
       IN  /\ JustTradedShares > 0
              => before.cash - cash = JustTradedShares * CostAdjustedBuy(open)
           /\ JustTradedShares < 0
              => before.cash - cash = JustTradedShares * CostAdjustedSell(open)
           /\ (transaction_cost_bps = 0 /\ slippage_bps = 0)
              => before.cash - cash = JustTradedShares * open

(***************************************************************************)
(* Vocabulary of the metric properties (under EvalSpec).                   *)
(***************************************************************************)
IsZero(m) == ~m.nan /\ (IF "sign" \in DOMAIN m THEN m.sign = 0 ELSE m.num = 0)
AnnualizedReturnDone == Len(metrics) >= 1
SharpeDone == Len(metrics) >= 2
MaxDrawdownDone == Len(metrics) >= 3
ConstantSeries == \A a, b \in DOMAIN value : value[a] = value[b]
NonDecreasingSeries == \A a, b \in DOMAIN value : a <= b => value[a] <= value[b]

(***************************************************************************)
(* C15: sharpe returns 0 for every value series with fewer than 2          *)
(* daily-return observations, that is of length 0, 1 and 2.                *)
(***************************************************************************)
C15_SharpeZeroBelowTwoReturns ==
    (SharpeDone /\ Len(value) <= 2) => IsZero(metrics[2])

(***************************************************************************)
(* C16: annualized_return, sharpe and max_drawdown each return 0.0, never  *)
(* NaN, for a value series of length 0 and for one of length 1.            *)
(***************************************************************************)
C16_MetricsZeroOnDegenerateSeries ==
    Len(value) <= 1 => \A j \in DOMAIN metrics : IsZero(metrics[j])

(***************************************************************************)
(* C17: annualized_return of every constant positive series is 0, and      *)
(* max_drawdown, the minimum over the dates of V / running maximum - 1, of *)
(* every non-decreasing positive series is 0.  The minimum ranges over the *)
(* dates of the series, so there is at least one.                          *)
(***************************************************************************)
C17_FlatReturnAndMonotoneDrawdown ==
    /\ (AnnualizedReturnDone /\ ConstantSeries) => IsZero(metrics[1])
    /\ (MaxDrawdownDone /\ NonDecreasingSeries /\ value # <<>>)
       => IsZero(metrics[3])

\* All three metrics computed for a strictly increasing series of three or
\* more values.
C17_Witness ==
    /\ MaxDrawdownDone
    /\ Len(value) >= 3
    /\ \A a, b \in DOMAIN value : a < b => value[a] < value[b]

(***************************************************************************)
(* C18: no ledger row is ever produced from an invalid configuration: a    *)
(* negative transaction cost or slippage, a non-positive initial cash, a   *)
(* mode that is neither signals nor weights, or an empty ticker list is    *)
(* rejected before the simulation loop starts (under UncheckedSpec).       *)
(***************************************************************************)
InvalidConfiguration ==
    \/ transaction_cost_bps < 0
    \/ slippage_bps < 0
    \/ initial_cash <= 0
    \/ mode \notin {"signals", "weights"}
    \/ tickers = <<>>

C18_InvalidConfigurationYieldsNoRow ==
    InvalidConfiguration
    => /\ rows = <<>>
       /\ \A c \in DOMAIN ledgers : ledgers[c].outcome = "raised"

(***************************************************************************)
(* C19: when the open of t_next at which a trade is executed is zero, the  *)
(* run stops with an error and records no row computed from that price: no *)
(* row shows a position changed at a zero open (under UncheckedSpec).      *)
(***************************************************************************)
PositionBeforeRow(j, tk) == IF j = 1 THEN 0 ELSE rows[j - 1].pos[tk]

C19_NoRowFromZeroOpenTrade ==
    \A j \in DOMAIN rows : \A tk \in TickerSet :
        rows[j].pos[tk] # PositionBeforeRow(j, tk)
        => prices_open[rows[j].date + 1][tk] # 0

(***************************************************************************)
(* C20: run_backtest keeps no state between runs: the calls on one         *)
(* environment with the same prices and decisions return identical         *)
(* ledgers, each call starts from cash = initial_cash and zero positions,  *)
(* and no step of a call changes the configuration fields (under           *)
(* TwiceSpec).                                                             *)
(***************************************************************************)
C20_IdenticalLedgers ==
    \A a, b \in DOMAIN ledgers : ledgers[a] = ledgers[b]

C20_CallStartsFresh ==
    (pc = "loop" /\ i = 0)
    => /\ cash = initial_cash
       /\ \A tk \in TickerSet : shares[tk] = 0
       /\ rows = <<>>

C20_RepeatedCallsIndependent ==
    /\ [](C20_IdenticalLedgers /\ C20_CallStartsFresh)
    /\ [][config' = config]_vars

\* Two calls have returned, and the first one ended holding shares.
C20_Witness ==
    /\ Len(ledgers) = MaxCalls
    /\ ledgers[1].outcome = "returned"
    /\ \E tk \in TickerSet :
         ledgers[1].ledger[Len(ledgers[1].ledger)].pos[tk] > 0
    /\ ledgers[1].ledger[Len(ledgers[1].ledger)].cash # initial_cash

(***************************************************************************)
(* C21: run_backtest raises no exception on well-formed input, also when   *)
(* no date is processed (a price frame of a single date, decisions that    *)
(* meet the price index on its final date only): it then returns an empty  *)
(* ledger.                                                                 *)
(***************************************************************************)
C21_WellFormedRunReturns ==
    /\ pc # "raised"
    /\ \A c \in DOMAIN ledgers : ledgers[c].outcome = "returned"

(***************************************************************************)
(* C26: in signal mode a "sell" on a ticker with a positive position sets  *)
(* the position to 0 and adds shares held * open of t_next * (1 -          *)
(* total_bps) to cash, leaving the other positions alone; a "hold" changes *)
(* neither cash nor any position.                                          *)
(***************************************************************************)
C26_SellOnPosition ==
    /\ mode = "signals"
    /\ JustTraded
    /\ JustSig = "sell"
    /\ before.shares[JustTk] > 0

C26_Hold ==
    /\ mode = "signals"
    /\ JustTraded
    /\ JustSig = "hold"

C26_SellLiquidatesHoldKeeps ==
    /\ C26_SellOnPosition
       => /\ shares[JustTk] = 0
          /\ cash = before.cash
                      + before.shares[JustTk] * CostAdjustedSell(JustOpen)
          /\ \A tk \in TickerSet \ {JustTk} : shares[tk] = before.shares[tk]
    /\ C26_Hold
       => /\ cash = before.cash
          /\ shares = before.shares

\* A costed sale of a position in a run on two tickers.
C26_Witness ==
    /\ C26_SellOnPosition
    /\ TotalBps > 0
    /\ Len(tickers) = 2

(***************************************************************************)
(* C28: in weight mode, if the pre-trade portfolio value PV of a date is   *)
(* >= 0 and the targets are non-negative with sum S <= 1, the cash after   *)
(* the date's rebalance is >= PV * (1 - S), hence >= 0.                    *)
(***************************************************************************)
RECURSIVE target_sum(_, _)
target_sum(t, n) ==
    IF n = 0 THEN 0
    ELSE target_sum(t, n - 1) + signals_or_weights[t][tickers[n]]

C28_TargetsWithinBudget ==
    /\ C13_RebalanceDone
    /\ port_val >= 0
    /\ \A tk \in TickerSet : signals_or_weights[i][tk] >= 0
    /\ target_sum(i, Len(tickers)) <= WeightScale

C28_RebalanceKeepsCashReserve ==
    C28_TargetsWithinBudget
    => /\ cash * WeightScale
            >= port_val * (WeightScale - target_sum(i, Len(tickers)))
       /\ cash >= 0

\* A costed rebalance of two tickers within the budget that sold shares of
\* one and bought shares of the other.
C28_Witness ==
    /\ C28_TargetsWithinBudget
    /\ TotalBps > 0
    /\ \E a, b \in TickerSet :
         /\ shares[a] < StartShares[a]
         /\ shares[b] > StartShares[b]

(***************************************************************************)
(* C30: in signal mode the tickers of a date are processed in list order   *)
(* against one running cash balance: a "buy" listed before a same-date     *)
(* "sell" cannot use the sale's proceeds, a "buy" listed after it can, and *)
(* the book after the date can differ between two orders of the tickers.   *)
(***************************************************************************)
C30_DateDone == mode = "signals" /\ pc = "trade" /\ k > Len(tickers)

C30_Bought(c, open) == IF c >= open THEN c \div open ELSE 0

C30_BuyThenSell ==
    /\ C30_DateDone
    /\ Len(tickers) = 2
    /\ signals_or_weights[i][tickers[1]] = "buy"
    /\ signals_or_weights[i][tickers[2]] = "sell"
    /\ StartShares[tickers[2]] > 0

C30_SellThenBuy ==
    /\ C30_DateDone
    /\ Len(tickers) = 2
    /\ signals_or_weights[i][tickers[1]] = "sell"
    /\ StartShares[tickers[1]] > 0
    /\ signals_or_weights[i][tickers[2]] = "buy"

C30_ListOrderRunningCash ==
    /\ C30_BuyThenSell
       => shares[tickers[1]] - StartShares[tickers[1]]
            = C30_Bought(StartCash, prices_open[i + 1][tickers[1]])
    /\ C30_SellThenBuy
       => shares[tickers[2]] - StartShares[tickers[2]]
            = C30_Bought(StartCash + StartShares[tickers[1]]
                            * CostAdjustedSell(prices_open[i + 1][tickers[1]]),
                         prices_open[i + 1][tickers[2]])
    /\ C30_DateDone
       => signals_in_order(tickers, StartCash, StartShares, i)
            = [cash |-> cash, shares |-> shares]

\* A sale followed by a buy that spends its proceeds, where the reverse
\* order of the two tickers ends the date with another book.
C30_Witness ==
    /\ C30_SellThenBuy
    /\ signals_in_order(<<tickers[2], tickers[1]>>, StartCash, StartShares, i)
         # [cash |-> cash, shares |-> shares]

(***************************************************************************)
(* C22: ma_crossover_signals with fast < slow emits "buy" where the fast   *)
(* rolling mean exceeds the slow one, "sell" where it is below and "hold"  *)
(* where they are equal or either is undefined; so the first slow - 1      *)
(* observations are "hold", and so is every observation whose slow window  *)
(* holds a missing price (under MaSpec).                                   *)
(***************************************************************************)
C22_Window(j, w) == {l \in 1..Len(ma_close) : j - w < l /\ l <= j}

C22_Defined(j, w) ==
    /\ j >= w
    /\ \A l \in C22_Window(j, w) : ma_close[l] # Missing

RECURSIVE C22_Sum(_)
C22_Sum(S) ==
    IF S = {} THEN 0
    ELSE LET l == CHOOSE l \in S : TRUE IN ma_close[l] + C22_Sum(S \ {l})

C22_Expected(j) ==
    IF ~C22_Defined(j, fast) \/ ~C22_Defined(j, slow) THEN "hold"
    ELSE LET f == C22_Sum(C22_Window(j, fast)) * slow
             s == C22_Sum(C22_Window(j, slow)) * fast
         IN  IF f > s THEN "buy" ELSE IF f < s THEN "sell" ELSE "hold"

C22_CrossoverSignals ==
    (stage = "returned" /\ fast < slow)
    => /\ DOMAIN ma_sig = DOMAIN ma_close
       /\ \A j \in DOMAIN ma_close :
            /\ ma_sig[j] = C22_Expected(j)
            /\ j <= slow - 1 => ma_sig[j] = "hold"
            /\ (\E l \in C22_Window(j, slow) : ma_close[l] = Missing)
               => ma_sig[j] = "hold"

\* A returned series with a buy, a sell and, past the first slow - 1
\* observations, a hold forced by a missing price.
C22_Witness ==
    /\ stage = "returned"
    /\ fast < slow
    /\ \E a, b \in DOMAIN ma_sig : ma_sig[a] = "buy" /\ ma_sig[b] = "sell"
    /\ \E j \in DOMAIN ma_sig :
         /\ j >= slow
         /\ \E l \in C22_Window(j, slow) : ma_close[l] = Missing

(***************************************************************************)
(* C23: for each ticker the position on an observation is the 0/1 signal   *)
(* of the preceding observation (0 on the first), and the action is "buy"  *)
(* exactly when the position goes 0 -> 1 from the previous observation,    *)
(* "sell" exactly when it goes 1 -> 0 and "hold" otherwise; no action      *)
(* follows from the signal of its own observation (under SmaSpec).         *)
(***************************************************************************)
C23_ActionsDone == stage = "actions"
C23_Signal(tk, j) == IF j < 1 THEN 0 ELSE df_with_pos.signal[tk][j]
C23_Position(tk, j) == IF j < 1 THEN 0 ELSE df_with_pos.position[tk][j]

C23_PositionLagsSignal ==
    C23_ActionsDone
    => \A tk \in DOMAIN df : \A j \in DOMAIN df[tk] :
         /\ C23_Position(tk, j) = C23_Signal(tk, j - 1)
         /\ wide[tk][j] = "buy"
              <=> (C23_Position(tk, j - 1) = 0 /\ C23_Position(tk, j) = 1)
         /\ wide[tk][j] = "sell"
              <=> (C23_Position(tk, j - 1) = 1 /\ C23_Position(tk, j) = 0)
         /\ wide[tk][j] \in {"buy", "sell", "hold"}
         \* the action is a function of the two signals before it
         /\ wide[tk][j] = "buy"
              <=> (C23_Signal(tk, j - 2) = 0 /\ C23_Signal(tk, j - 1) = 1)
         /\ wide[tk][j] = "sell"
              <=> (C23_Signal(tk, j - 2) = 1 /\ C23_Signal(tk, j - 1) = 0)

\* A ticker whose signal rises on an observation that itself is a hold, the
\* buy following one observation later, and a sell later on.
C23_Witness ==
    /\ C23_ActionsDone
    /\ \E tk \in DOMAIN df : \E j, l \in DOMAIN df[tk] :
         /\ j + 1 < l
         /\ C23_Signal(tk, j) = 1
         /\ wide[tk][j] = "hold"
         /\ wide[tk][j + 1] = "buy"
         /\ wide[tk][l] = "sell"

(***************************************************************************)
(* C29: in the table of actions_table from sma_crossover positions, the    *)
(* non-hold actions of every ticker alternate buy, sell, buy, ... in date  *)
(* order and start with a buy (under SmaSpec).                             *)
(***************************************************************************)
\* the latest non-hold action before observation j, "none" if there is none
C29_LastTradeBefore(tk, j) ==
    LET trades == {l \in 1..(j - 1) : wide[tk][l] # "hold"}
    IN  IF trades = {} THEN "none"
        ELSE wide[tk][CHOOSE l \in trades : \A m \in trades : m <= l]

C29_ActionsAlternate ==
    C23_ActionsDone
    => \A tk \in DOMAIN df : \A j \in DOMAIN df[tk] :
         /\ wide[tk][j] = "buy"
              => C29_LastTradeBefore(tk, j) \in {"none", "sell"}
         /\ wide[tk][j] = "sell"
              => C29_LastTradeBefore(tk, j) = "buy"

\* A ticker that is bought, sold and bought again.
C29_Witness ==
    /\ C23_ActionsDone
    /\ \E tk \in DOMAIN df : \E a, b, c \in DOMAIN df[tk] :
         /\ a < b
         /\ b < c
         /\ wide[tk][a] = "buy"
         /\ wide[tk][b] = "sell"
         /\ wide[tk][c] = "buy"

(***************************************************************************)
(* Vocabulary of the weight-table properties (under WeightsSpec).          *)
(***************************************************************************)
WeightsDone(rb) == stage = "weights" /\ rebalance = rb
TableTickers == DOMAIN df_with_pos.position
TableDates == DOMAIN weights
Positioned(j) == {tk \in TableTickers : df_with_pos.position[tk][j] = 1}
RowTotal(j) == row_sum(weights[j], TableTickers \cup {"CASH"})
FlagsUnchanged(j) ==
    /\ j > 1
    /\ \A tk \in TableTickers :
         df_with_pos.position[tk][j] = df_with_pos.position[tk][j - 1]

(***************************************************************************)
(* C24: weights_table in daily mode gives, on a date with k > 0 positioned *)
(* tickers, (1 - cash_buffer) / k to each positioned ticker, 0 to every    *)
(* other ticker and cash_buffer to CASH; on a date with k = 0 it gives 1.0 *)
(* to CASH and 0 to every ticker; every row sums to 1.                     *)
(***************************************************************************)
C24_DailyEqualWeights ==
    WeightsDone("daily")
    => \A j \in TableDates :
         LET kk == Cardinality(Positioned(j))
         IN  /\ kk > 0
                => /\ \A tk \in Positioned(j) :
                        weights[j][tk] * kk = One - cash_buffer
                   /\ \A tk \in TableTickers \ Positioned(j) :
                        weights[j][tk] = 0
                   /\ weights[j]["CASH"] = cash_buffer
             /\ kk = 0
                => /\ \A tk \in TableTickers : weights[j][tk] = 0
                   /\ weights[j]["CASH"] = One
             /\ RowTotal(j) = One

\* A daily table with a date without positions and a date with several of
\* them, under a cash buffer strictly between 0 and 1.
C24_Witness ==
    /\ WeightsDone("daily")
    /\ cash_buffer \notin {0, One}
    /\ \E a, b \in TableDates :
         /\ Positioned(a) = {}
         /\ Cardinality(Positioned(b)) >= 2
         /\ Positioned(b) # TableTickers

(***************************************************************************)
(* C25: weights_table with rebalance "on_signal" returns, for every date   *)
(* after the first on which no ticker's position flag differs from the     *)
(* previous date, exactly the weight row of the previous date, and every   *)
(* returned row sums to 1.                                                 *)
(***************************************************************************)
C25_OnSignalCarriesRow ==
    WeightsDone("on_signal")
    => \A j \in TableDates :
         /\ FlagsUnchanged(j) => weights[j] = weights[j - 1]
         /\ RowTotal(j) = One

\* An on-signal table in which positions are taken on one date, kept on
\* the next and changed on the one after.
C25_Witness ==
    /\ WeightsDone("on_signal")
    /\ cash_buffer \notin {0, One}
    /\ \E j \in TableDates :
         /\ j + 1 \in TableDates
         /\ FlagsUnchanged(j)
         /\ Positioned(j) # {}
         /\ ~FlagsUnchanged(j - 1)
         /\ ~FlagsUnchanged(j + 1)

=============================================================================
